---- MODULE Spec2Model ----
(***************************************************************************)
(* A model of replize (src/replize/replize.py): the REPL driver that reads *)
(* a line, dispatches exit words, builtins and history references, runs    *)
(* the base command with the line's arguments as a subprocess, routes its  *)
(* output and counts the command.                                          *)
(*                                                                         *)
(* A Python str is a sequence of one-character strings; bytes captured     *)
(* from the child are a string that is empty or not; an exception is the   *)
(* name of its class.                                                      *)
(***************************************************************************)
EXTENDS Integers, Sequences, FiniteSets, TLC

\* ------------------------------------------------------------------ bounds

\* The number of prompts a session may issue.
MaxPrompts == 3

\* The length of the base commands and lines the executor is applied to on
\* its own.
MaxStrLen == 3

\* ------------------------------------------------------------- str helpers

\* The characters str.strip() and str.split() treat as whitespace.
WS == {" ", "\t"}

RECURSIVE lstrip(_)
lstrip(s) == IF s # <<>> /\ Head(s) \in WS THEN lstrip(Tail(s)) ELSE s

RECURSIVE rstrip(_)
rstrip(s) ==
    IF s # <<>> /\ s[Len(s)] \in WS THEN rstrip(SubSeq(s, 1, Len(s) - 1)) ELSE s

\* strip() left out: the line is taken as typed.
strip_left_out(s) == s

\* str.strip()
strip(s) == rstrip(lstrip(s))

RECURSIVE SplitFrom(_, _, _)
SplitFrom(s, cur, acc) ==
    IF s = <<>>
    THEN IF cur = <<>> THEN acc ELSE Append(acc, cur)
    ELSE IF Head(s) \in WS
         THEN SplitFrom(Tail(s), <<>>, IF cur = <<>> THEN acc ELSE Append(acc, cur))
         ELSE SplitFrom(Tail(s), Append(cur, Head(s)), acc)

\* str.split(): the whitespace-delimited tokens
split(s) == SplitFrom(s, <<>>, <<>>)

\* str.startswith('!')
startswith_bang(s) == s # <<>> /\ Head(s) = "!"

DigitVal ==
    [c \in {"0", "1", "2", "3", "4", "5", "6", "7", "8", "9"} |->
        CASE c = "0" -> 0 [] c = "1" -> 1 [] c = "2" -> 2 [] c = "3" -> 3
          [] c = "4" -> 4 [] c = "5" -> 5 [] c = "6" -> 6 [] c = "7" -> 7
          [] c = "8" -> 8 [] c = "9" -> 9]

IsDigit(c) == c \in DOMAIN DigitVal

\* The literal int() accepts after the sign: digits, single underscores
\* only between digits.
ValidIntBody(b) ==
    /\ b # <<>>
    /\ IsDigit(b[1])
    /\ IsDigit(b[Len(b)])
    /\ \A k \in 1..Len(b) : IsDigit(b[k]) \/ b[k] = "_"
    /\ \A k \in 1..(Len(b) - 1) : ~(b[k] = "_" /\ b[k + 1] = "_")

RECURSIVE IntBodyValue(_, _)
IntBodyValue(b, acc) ==
    IF b = <<>> THEN acc
    ELSE IF Head(b) = "_" THEN IntBodyValue(Tail(b), acc)
         ELSE IntBodyValue(Tail(b), 10 * acc + DigitVal[Head(b)])

\* int(s) on a str: surrounding whitespace is ignored, one optional sign;
\* ok = FALSE stands for ValueError.
int(s) ==
    LET t == strip(s)
        signed == t # <<>> /\ Head(t) \in {"+", "-"}
        body == IF signed THEN Tail(t) ELSE t
        neg == signed /\ Head(t) = "-"
    IN  IF ValidIntBody(body)
        THEN [ok |-> TRUE,
              val |-> IF neg THEN 0 - IntBodyValue(body, 0) ELSE IntBodyValue(body, 0)]
        ELSE [ok |-> FALSE, val |-> 0]

\* shlex in POSIX mode with whitespace_split, as shlex.split() sets it up.
\* state: "sp" between tokens, "a" in a word, a quote character inside that
\* quote, "\\" after an escape character.  ok = FALSE stands for ValueError
\* ("No closing quotation" / "No escaped character").
ShlexQuotes == {"'", "\""}

RECURSIVE ShlexFrom(_, _, _, _, _, _)
ShlexFrom(s, state, escapedstate, token, quoted, acc) ==
    IF s = <<>>
    THEN IF state \in ShlexQuotes \/ state = "\\"
         THEN [ok |-> FALSE, tokens |-> <<>>]
         ELSE [ok |-> TRUE,
               tokens |-> IF state = "a" /\ (token # <<>> \/ quoted)
                          THEN Append(acc, token) ELSE acc]
    ELSE LET c == Head(s)
             r == Tail(s)
         IN  IF state = "sp"
             THEN IF c \in WS THEN ShlexFrom(r, "sp", escapedstate, <<>>, FALSE, acc)
                  ELSE IF c = "\\" THEN ShlexFrom(r, "\\", "a", <<>>, FALSE, acc)
                  ELSE IF c \in ShlexQuotes THEN ShlexFrom(r, c, escapedstate, <<>>, FALSE, acc)
                  ELSE ShlexFrom(r, "a", escapedstate, <<c>>, FALSE, acc)
             ELSE IF state \in ShlexQuotes
             THEN IF c = state THEN ShlexFrom(r, "a", escapedstate, token, TRUE, acc)
                  ELSE IF c = "\\" /\ state = "\""
                       THEN ShlexFrom(r, "\\", state, token, TRUE, acc)
                       ELSE ShlexFrom(r, state, escapedstate, Append(token, c), TRUE, acc)
             ELSE IF state = "\\"
             THEN LET kept == IF escapedstate \in ShlexQuotes /\ c # "\\" /\ c # escapedstate
                              THEN Append(token, "\\") ELSE token
                  IN  ShlexFrom(r, escapedstate, escapedstate, Append(kept, c), quoted, acc)
             ELSE \* state = "a"
                  IF c \in WS
                  THEN IF token # <<>> \/ quoted
                       THEN ShlexFrom(r, "sp", escapedstate, <<>>, FALSE, Append(acc, token))
                       ELSE ShlexFrom(r, "sp", escapedstate, <<>>, FALSE, acc)
                  ELSE IF c \in ShlexQuotes THEN ShlexFrom(r, c, escapedstate, token, quoted, acc)
                  ELSE IF c = "\\" THEN ShlexFrom(r, "\\", "a", token, quoted, acc)
                  ELSE ShlexFrom(r, "a", escapedstate, Append(token, c), quoted, acc)

\* shlex.split(s)
shlex_split(s) == ShlexFrom(s, "sp", "a", <<>>, FALSE, <<>>)


\* ------------------------------------------------------------- exceptions

\* The classes an exception is an instance of (its own and its bases).
Bases(e) ==
    CASE e = "KeyboardInterrupt" -> {"KeyboardInterrupt", "BaseException"}
      [] e = "EOFError" -> {"EOFError", "Exception", "BaseException"}
      [] e = "CustomExit" -> {"CustomExit", "Exception", "BaseException"}
      [] e = "ValueError" -> {"ValueError", "Exception", "BaseException"}
      [] e = "UnicodeDecodeError" ->
            {"UnicodeDecodeError", "ValueError", "Exception", "BaseException"}
      [] e = "FileNotFoundError" ->
            {"FileNotFoundError", "OSError", "Exception", "BaseException"}
      [] e = "PermissionError" ->
            {"PermissionError", "OSError", "Exception", "BaseException"}
      [] e = "TimeoutExpired" ->
            {"TimeoutExpired", "SubprocessError", "Exception", "BaseException"}

\* isinstance(e, cls), the test an except clause makes
IsInstance(e, cls) == cls \in Bases(e)

\* ------------------------------------------------------------------ inputs

s_exit == <<"e", "x", "i", "t">>
s_quit == <<"q", "u", "i", "t">>
s_help == <<"h", "e", "l", "p">>
s_history == <<"h", "i", "s", "t", "o", "r", "y">>
s_clear == <<"c", "l", "e", "a", "r">>
s_ls == <<"l", "s">>

\* What input() may return: empty and whitespace-only lines, exit words
\* (bare and with trailing text), builtins (bare, with trailing text, with
\* surrounding whitespace), plain arguments, history references (valid, out
\* of range, negative, non-numeric, followed by more text) and an
\* unterminated quote.
Lines ==
    { <<>>,
      <<" ", "\t">>,
      s_exit,
      s_quit \o <<" ", "x">>,
      s_help,
      <<" ", "?", " ", "x", " ">>,
      s_history,
      s_clear,
      <<"-", "l">>,
      <<"!", "0">>,
      <<"!", "1">>,
      <<"!", "-", "1">>,
      <<"!", "a">>,
      <<"!", "0", " ", "a">>,
      <<"'", "a">> }

\* What input() may raise: end of input, an interrupt, a caller's own signal.
ReaderRaises == {"EOFError", "KeyboardInterrupt", "CustomExit"}

\* What a hook or an output callback may raise.
CallbackRaises == {"EOFError", "KeyboardInterrupt"}

\* What the child may write to each of its pipes.
StdoutValues == {"", "out"}
StderrValues == {"", "err"}

\* The exit statuses of a child that completes.
ReturnCodes == {0, 1}

\* The configurations a session is started with (ReplizeConfig).
Configs ==
    [ command : {s_ls},
      exit_commands : {{s_exit, s_quit}},
      exit_exceptions : {{"EOFError", "KeyboardInterrupt"}, {"CustomExit"}},
      timeout : {"None", "set"},
      log_file : {"None", "set"},
      pre_command_hooks : {<<"pre1", "pre2">>},
      post_command_hooks : {<<"post1", "post2">>},
      show_return_code : {TRUE},
      validate_command : {TRUE} ]


\* The scenario of the specification's section 8: base command ls, then
\* these lines in this order.
Scenario == << <<"-", "l">>, <<"!", "0">>, s_exit >>

\* ------------------------------------------------------------------- state

VARIABLES
    cfg,               \* the ReplizeConfig of the session (fixed once built)
    pc,                \* where replize() is
    typed,             \* what input() returned for the current line
    arguments_str,     \* the current line, stripped and possibly rewritten
    session_history,   \* config.session_history
    command_counter,   \* config.command_counter
    hook_i,            \* the next hook of the running hook loop
    process,           \* the child of the current line
    stdout,            \* what communicate() returned for the current line
    stderr,
    trace,             \* what the current iteration has done, in order
    spawned,           \* the argument vector of every Popen call, in order
    prompts,           \* how many prompts were issued
    log_file_handle,   \* "None", "open" or "closed"
    exc,               \* the exception replize() is raising, "" for none
    ended_by,          \* the place the session was ended from, "" while it runs
    scenario_pos,      \* how far the lines read so far follow Scenario, -1 once off
    cli                \* the command line entry point: its inputs and its kwargs

vars ==
    << cfg, pc, typed, arguments_str, session_history, command_counter, hook_i,
       process, stdout, stderr, trace, spawned, prompts, log_file_handle, exc,
       ended_by, scenario_pos, cli >>

Ev(e, a) == [ev |-> e, arg |-> a]

\* The keys of the configuration the command line entry point merges.
CliKeys == {"prompt_template", "exit_commands", "log_file", "timeout"}

\* No layer sets any key: replize() called from Python, not from the
\* command line.
NoCli ==
    [ file_defaults |-> [k \in CliKeys |-> "absent"],
      file_command |-> [k \in CliKeys |-> "absent"],
      given |-> [k \in CliKeys |-> "absent"],
      kwargs |-> [k \in CliKeys |-> "absent"] ]

NoProcess == [state |-> "none", returncode |-> 0]

Init ==
    /\ cfg \in Configs
    /\ pc = "start"
    /\ typed = <<>>
    /\ arguments_str = <<>>
    /\ session_history = <<>>
    /\ command_counter = 0
    /\ hook_i = 1
    /\ process = NoProcess
    /\ stdout = ""
    /\ stderr = ""
    /\ trace = <<>>
    /\ spawned = <<>>
    /\ prompts = 0
    /\ log_file_handle = "None"
    /\ exc = ""
    /\ ended_by = ""
    /\ scenario_pos = 0
    /\ cli = NoCli

\* ------------------------------------------------------- exception routing

\* except config.exit_exceptions
IsExitException(e) == \E c \in cfg.exit_exceptions : IsInstance(e, c)

\* The outer handler re-raising what it caught instead of breaking the loop.
OuterExcept_reraises(e, site) ==
    [pc |-> "finally", exc |-> e, ended_by |-> site,
     events |-> <<Ev("outer_except", e)>>]

\* An exception that reaches the loop's outer handler: one of the exit
\* exceptions breaks the loop, any other leaves replize() through finally.
OuterExcept(e, site) ==
    [pc |-> "finally",
     exc |-> IF IsExitException(e) THEN "" ELSE e,
     ended_by |-> site,
     events |-> <<Ev("outer_except", e)>>]

\* The try around the execution with its except FileNotFoundError only.
ExecExcept_only_not_found(e, site) ==
    IF IsInstance(e, "FileNotFoundError")
    THEN [pc |-> "increment", exc |-> "", ended_by |-> "",
          events |-> <<Ev("report_not_found", "")>>]
    ELSE OuterExcept(e, site)

\* The handlers around the execution going straight back to the prompt.
ExecExcept_skips_count(e, site) ==
    IF IsInstance(e, "FileNotFoundError")
    THEN [pc |-> "prompt", exc |-> "", ended_by |-> "",
          events |-> <<Ev("report_not_found", "")>>]
    ELSE IF IsInstance(e, "Exception")
    THEN [pc |-> "prompt", exc |-> "", ended_by |-> "",
          events |-> <<Ev("report_error", e)>>]
    ELSE OuterExcept(e, site)

\* An exception raised inside the try around the execution of the command.
ExecExcept(e, site) ==
    IF IsInstance(e, "FileNotFoundError")
    THEN [pc |-> "increment", exc |-> "", ended_by |-> "",
          events |-> <<Ev("report_not_found", "")>>]
    ELSE IF IsInstance(e, "Exception")
    THEN [pc |-> "increment", exc |-> "", ended_by |-> "",
          events |-> <<Ev("report_error", e)>>]
    ELSE OuterExcept(e, site)

\* A hook called without a try of its own around it.
HookExcept_no_try(e, site, report) ==
    [pc |-> "finally",
     exc |-> IF IsExitException(e) THEN "" ELSE e,
     ended_by |-> site,
     events |-> <<Ev("outer_except", e)>>]

\* A failed hook reported and the rest of the iteration given up.
HookExcept_aborts_command(e, site, report) ==
    IF IsInstance(e, "Exception")
    THEN [pc |-> "increment", exc |-> "", ended_by |-> "",
          events |-> <<Ev(report, e)>>]
    ELSE OuterExcept(e, site)

\* An exception raised by a hook, inside the try around that hook.
HookExcept(e, site, report) ==
    IF IsInstance(e, "Exception")
    THEN [pc |-> "", exc |-> "", ended_by |-> "", events |-> <<Ev(report, e)>>]
    ELSE OuterExcept(e, site)

\* ReplizeConfig.get_prompt(): what the prompt template is formatted with.
get_prompt == [command |-> cfg.command, count |-> command_counter]

\* ------------------------------------------------------------------ steps

\* The base command validated although validation is switched off.
ValidationFails_unconditional(found) == ~found

\* if config.validate_command and not validate_base_command(command)
ValidationFails(found) == cfg.validate_command /\ ~found

\* replize() up to the loop: validation of the base command, the log file.
\* found is what shutil.which() says of the base command (asked only when
\* validation is on), opened whether open() of the log file succeeds.
Start ==
    /\ pc = "start"
    /\ \E found \in BOOLEAN :
       \E opened \in (IF cfg.log_file = "None" THEN {TRUE} ELSE BOOLEAN) :
         LET which == IF cfg.validate_command
                      THEN <<Ev("which", IF found THEN "found" ELSE "None")>>
                      ELSE <<>>
         IN  IF ValidationFails(found)
             THEN /\ pc' = "done"
                  /\ ended_by' = "validate"
                  /\ trace' = which \o <<Ev("report_not_in_path", "")>>
                  /\ UNCHANGED <<exc, log_file_handle>>
             ELSE IF cfg.log_file = "None"
             THEN /\ pc' = "prompt"
                  /\ trace' = which
                  /\ UNCHANGED <<exc, log_file_handle, ended_by>>
             ELSE IF opened
             THEN /\ pc' = "prompt"
                  /\ log_file_handle' = "open"
                  /\ trace' = which \o <<Ev("log_write", "header")>>
                  /\ UNCHANGED <<exc, ended_by>>
             ELSE /\ pc' = "done"
                  /\ exc' = "PermissionError"
                  /\ ended_by' = "log_open"
                  /\ trace' = which
                  /\ UNCHANGED log_file_handle
    /\ UNCHANGED << cli, cfg, typed, arguments_str, session_history, command_counter,
                    hook_i, process, stdout, stderr, spawned, prompts,
                    scenario_pos >>

\* The prompt and input(): a line comes back, or the reader raises.
ReadLine ==
    /\ pc = "prompt"
    /\ prompts < MaxPrompts
    /\ prompts' = prompts + 1
    /\ \/ \E l \in Lines :
            /\ typed' = l
            /\ arguments_str' = strip(l)
            /\ pc' = IF strip(l) = <<>> THEN "prompt" ELSE "dispatch"
            /\ trace' = <<Ev("prompt", ""), Ev("input", "line")>>
            /\ scenario_pos' =
                 IF /\ scenario_pos >= 0
                    /\ scenario_pos < Len(Scenario)
                    /\ l = Scenario[scenario_pos + 1]
                 THEN scenario_pos + 1 ELSE -1
            /\ UNCHANGED <<exc, ended_by>>
       \/ \E e \in ReaderRaises :
            LET h == OuterExcept(e, "reader")
            IN  /\ typed' = <<>>
                /\ arguments_str' = <<>>
                /\ pc' = h.pc
                /\ exc' = h.exc
                /\ ended_by' = h.ended_by
                /\ trace' = <<Ev("prompt", ""), Ev("input", e)>> \o h.events
                /\ scenario_pos' = -1
    /\ UNCHANGED << cli, cfg, session_history, command_counter, hook_i, process,
                    stdout, stderr, spawned, log_file_handle >>


\* The builtins recognised by the whole line instead of its first token.
HandleBuiltin_whole_line(history, a) ==
    LET no == [handled |-> FALSE, events |-> <<>>]
    IN  IF a \in {s_help, <<"?">>}
        THEN [handled |-> TRUE, events |-> <<Ev("print_help", "")>>]
        ELSE IF a = s_history
        THEN [handled |-> TRUE, events |-> <<Ev("print_history", "")>>]
        ELSE IF a = s_clear
        THEN [handled |-> TRUE, events |-> <<Ev("clear", "")>>]
        ELSE IF startswith_bang(a) /\ Len(a) > 1 /\ ~int(Tail(a)).ok
        THEN [handled |-> TRUE, events |-> <<Ev("report_invalid_ref", "")>>]
        ELSE no

\* _handle_builtin_command(config, arguments_str): whether the line was
\* handled, and what was printed.
HandleBuiltin(history, a) ==
    LET parts == split(a)
        cmd == parts[1]
        no == [handled |-> FALSE, events |-> <<>>]
    IN  IF parts = <<>> THEN no
        ELSE IF cmd \in {s_help, <<"?">>}
        THEN [handled |-> TRUE, events |-> <<Ev("print_help", "")>>]
        ELSE IF cmd = s_history
        THEN [handled |-> TRUE, events |-> <<Ev("print_history", "")>>]
        ELSE IF cmd = s_clear
        THEN [handled |-> TRUE, events |-> <<Ev("clear", "")>>]
        ELSE IF startswith_bang(cmd) /\ Len(cmd) > 1
        THEN LET index == int(Tail(cmd))
             IN  IF ~index.ok
                 THEN [handled |-> TRUE, events |-> <<Ev("report_invalid_ref", "")>>]
                 ELSE IF 0 <= index.val /\ index.val < Len(history)
                 THEN no
                 ELSE no
        ELSE no

\* The history indexed from its end instead of from its start.
HistoryReference_from_end(history, a) ==
    IF startswith_bang(a) /\ Len(a) > 1
    THEN LET index == int(Tail(a))
         IN  IF ~index.ok
             THEN [skip |-> FALSE, line |-> a, events |-> <<>>]
             ELSE IF 0 <= index.val /\ index.val < Len(history)
             THEN [skip |-> FALSE, line |-> history[Len(history) - index.val],
                   events |-> <<Ev("rerun", "")>>]
             ELSE [skip |-> TRUE, line |-> a,
                   events |-> <<Ev("report_out_of_range", "")>>]
    ELSE [skip |-> FALSE, line |-> a, events |-> <<>>]

\* The range check left out: an index out of range is run as a plain line.
HistoryReference_no_range_check(history, a) ==
    IF startswith_bang(a) /\ Len(a) > 1
    THEN LET index == int(Tail(a))
         IN  IF index.ok /\ 0 <= index.val /\ index.val < Len(history)
             THEN [skip |-> FALSE, line |-> history[index.val + 1],
                   events |-> <<Ev("rerun", "")>>]
             ELSE [skip |-> FALSE, line |-> a, events |-> <<>>]
    ELSE [skip |-> FALSE, line |-> a, events |-> <<>>]

\* The reference announced but the line not rewritten.
HistoryReference_no_rewrite(history, a) ==
    IF startswith_bang(a) /\ Len(a) > 1
    THEN LET index == int(Tail(a))
         IN  IF ~index.ok
             THEN [skip |-> FALSE, line |-> a, events |-> <<>>]
             ELSE IF 0 <= index.val /\ index.val < Len(history)
             THEN [skip |-> FALSE, line |-> a, events |-> <<Ev("rerun", "")>>]
             ELSE [skip |-> TRUE, line |-> a,
                   events |-> <<Ev("report_out_of_range", "")>>]
    ELSE [skip |-> FALSE, line |-> a, events |-> <<>>]

\* The loop's own treatment of a line that starts with '!': the line to run
\* (rewritten to the history entry when the rest of the line is an index in
\* range), or skip = TRUE when the index is out of range.
HistoryReference(history, a) ==
    IF startswith_bang(a) /\ Len(a) > 1
    THEN LET index == int(Tail(a))
         IN  IF ~index.ok
             THEN [skip |-> FALSE, line |-> a, events |-> <<>>]
             ELSE IF 0 <= index.val /\ index.val < Len(history)
             THEN [skip |-> FALSE, line |-> history[index.val + 1],
                   events |-> <<Ev("rerun", "")>>]
             ELSE [skip |-> TRUE, line |-> a,
                   events |-> <<Ev("report_out_of_range", "")>>]
    ELSE [skip |-> FALSE, line |-> a, events |-> <<>>]

\* The whole line compared with the exit words instead of its first token.
first_word_whole_line(a) == a

\* first_word, *_ = arguments_str.split() if arguments_str.split() else ['']
first_word(a) == IF split(a) = <<>> THEN <<>> ELSE split(a)[1]

\* The post hooks left out.
AfterPostHooks_skips_hooks(i) == "increment"

\* The pc after the history append and after each hook loop.
AfterPreHooks(i) == IF i > Len(cfg.pre_command_hooks) THEN "spawn" ELSE "pre_hooks"
AfterPostHooks(i) == IF i > Len(cfg.post_command_hooks) THEN "increment" ELSE "post_hooks"

\* The line inserted in front of the history.
history_append_front(history, a) == <<a>> \o history

\* A line already in the history not recorded again.
history_append_dedup(history, a) ==
    IF \E k \in 1..Len(history) : history[k] = a THEN history
    ELSE Append(history, a)

\* The line not recorded at all.
history_append_none(history, a) == history

\* The line recorded twice.
history_append_twice(history, a) == Append(Append(history, a), a)

\* config.session_history.append(arguments_str)
history_append(history, a) == Append(history, a)

\* A non-empty line: the log, the exit words, the builtins, the history
\* reference, the append to the session history.
Dispatch ==
    /\ pc = "dispatch"
    /\ LET logged == IF log_file_handle = "open"
                     THEN <<Ev("log_write", "input")>> ELSE <<>>
           b == HandleBuiltin(session_history, arguments_str)
           r == HistoryReference(session_history, arguments_str)
       IN  IF first_word(arguments_str) \in cfg.exit_commands
           THEN /\ pc' = "finally"
                /\ ended_by' = "exit_word"
                /\ trace' = trace \o logged
                /\ UNCHANGED <<arguments_str, session_history, hook_i>>
           ELSE IF b.handled
           THEN /\ pc' = "prompt"
                /\ trace' = trace \o logged \o b.events
                /\ UNCHANGED <<arguments_str, session_history, hook_i, ended_by>>
           ELSE IF r.skip
           THEN /\ pc' = "prompt"
                /\ trace' = trace \o logged \o r.events
                /\ UNCHANGED <<arguments_str, session_history, hook_i, ended_by>>
           ELSE /\ arguments_str' = r.line
                /\ session_history' = history_append(session_history, r.line)
                /\ hook_i' = 1
                /\ pc' = AfterPreHooks(1)
                /\ trace' = trace \o logged \o r.events \o <<Ev("history_append", "")>>
                /\ UNCHANGED ended_by
    /\ UNCHANGED << cli, cfg, typed, command_counter, process, stdout, stderr, spawned,
                    prompts, log_file_handle, exc, scenario_pos >>

\* One pre-command hook: it returns, or it raises.
PreHook ==
    /\ pc = "pre_hooks"
    /\ LET name == cfg.pre_command_hooks[hook_i]
           called == Ev("pre_hook", name)
       IN  \/ /\ trace' = Append(trace, called)
              /\ hook_i' = hook_i + 1
              /\ pc' = AfterPreHooks(hook_i + 1)
              /\ UNCHANGED <<exc, ended_by>>
           \/ \E e \in CallbackRaises :
                LET h == HookExcept(e, "pre_hook", "report_pre_hook_error")
                IN  /\ trace' = trace \o <<called, Ev("raised", e)>> \o h.events
                    /\ IF h.pc = ""
                       THEN /\ hook_i' = hook_i + 1
                            /\ pc' = AfterPreHooks(hook_i + 1)
                       ELSE /\ hook_i' = hook_i
                            /\ pc' = h.pc
                    /\ exc' = h.exc
                    /\ ended_by' = h.ended_by
    /\ UNCHANGED << cli, cfg, typed, arguments_str, session_history, command_counter,
                    process, stdout, stderr, spawned, prompts, log_file_handle,
                    scenario_pos >>

\* The base command and the line joined with nothing between them.
full_command_no_space == cfg.command \o arguments_str

\* full_command = f'{config.command} {arguments_str}'
full_command == cfg.command \o <<" ">> \o arguments_str

\* shlex_split(full_command) and Popen(...): the line does not tokenize, or
\* Popen is called and starts the child or raises.
Spawn ==
    /\ pc = "spawn"
    /\ LET argv == shlex_split(full_command)
       IN  IF ~argv.ok
           THEN LET h == ExecExcept("ValueError", "spawn")
                IN  /\ trace' = trace \o h.events
                    /\ pc' = h.pc
                    /\ UNCHANGED <<spawned, process, exc, ended_by>>
           ELSE /\ spawned' = Append(spawned, argv.tokens)
                /\ \/ /\ process' = [state |-> "running", returncode |-> 0]
                      /\ trace' = Append(trace, Ev("popen", ""))
                      /\ pc' = "communicate"
                      /\ UNCHANGED <<exc, ended_by>>
                   \/ \E e \in {"FileNotFoundError", "PermissionError"} :
                        LET h == ExecExcept(e, "spawn")
                        IN  /\ trace' = Append(trace, Ev("popen", "")) \o h.events
                            /\ pc' = h.pc
                            /\ exc' = h.exc
                            /\ ended_by' = h.ended_by
                            /\ UNCHANGED process
    /\ UNCHANGED << cli, cfg, typed, arguments_str, session_history, command_counter,
                    hook_i, stdout, stderr, prompts, log_file_handle, scenario_pos >>


\* What process.communicate(timeout=config.timeout) may raise: an interrupt
\* while waiting, and subprocess.TimeoutExpired when a timeout is configured
\* and the child outlives it.
WaitRaises ==
    {"KeyboardInterrupt"} \cup (IF cfg.timeout = "None" THEN {} ELSE {"TimeoutExpired"})

\* process.communicate(timeout=config.timeout) with its except TimeoutError
\* handler: the child completes and its output is captured, or the wait
\* raises.
Communicate ==
    /\ pc = "communicate"
    /\ \/ \E out \in StdoutValues, err \in StderrValues, rc \in ReturnCodes :
            /\ stdout' = out
            /\ stderr' = err
            /\ process' = [state |-> "exited", returncode |-> rc]
            /\ trace' = Append(trace, Ev("communicate", ""))
            /\ pc' = "stdout"
            /\ UNCHANGED <<exc, ended_by>>
       \/ \E e \in WaitRaises :
            IF IsInstance(e, "TimeoutError")
            THEN \E out \in StdoutValues, err \in StderrValues :
                   /\ stdout' = out
                   /\ stderr' = err
                   /\ process' = [state |-> "killed", returncode |-> -9]
                   /\ trace' = trace \o <<Ev("communicate", e), Ev("kill", ""),
                                          Ev("communicate", ""),
                                          Ev("report_timeout", "")>>
                   /\ pc' = "stdout"
                   /\ UNCHANGED <<exc, ended_by>>
            ELSE LET h == ExecExcept(e, "communicate")
                 IN  /\ trace' = Append(trace, Ev("communicate", e)) \o h.events
                     /\ pc' = h.pc
                     /\ exc' = h.exc
                     /\ ended_by' = h.ended_by
                     /\ UNCHANGED <<stdout, stderr, process>>
    /\ UNCHANGED << cli, cfg, typed, arguments_str, session_history, command_counter,
                    hook_i, spawned, prompts, log_file_handle, scenario_pos >>

Continue == [pc |-> "", exc |-> "", ended_by |-> "", events |-> <<>>]

\* The callback invoked without the test that the stream is not empty.
OutputStage_no_empty_test(value, callback, site) ==
    {[Continue EXCEPT !.events =
        <<Ev(callback, value)>> \o (IF log_file_handle = "open"
                                    THEN <<Ev("log_write", value)>> ELSE <<>>)]}

\* The handling of one captured stream: nothing when it is empty, else the
\* callback and, when a log is open, the write of the decoded bytes to it.
\* Each way it can go: the events, and where an exception takes the loop
\* (pc = "" when none was raised).
OutputStage(value, callback, site) ==
    IF value = ""
    THEN {Continue}
    ELSE LET called == <<Ev(callback, value)>>
         IN  {[Continue EXCEPT !.events =
                 called \o (IF log_file_handle = "open"
                            THEN <<Ev("log_write", value)>> ELSE <<>>)]}
             \cup
             {LET h == ExecExcept(e, site)
              IN  [h EXCEPT !.events = called \o <<Ev("raised", e)>> \o h.events] :
                  e \in CallbackRaises}
             \cup
             (IF log_file_handle = "open"
              THEN {LET h == ExecExcept("UnicodeDecodeError", "log_write")
                    IN  [h EXCEPT !.events =
                            called \o <<Ev("log_write_failed", value)>> \o h.events]}
              ELSE {})

\* if stdout: config.stdout_callback(stdout), and the log
HandleStdout ==
    /\ pc = "stdout"
    /\ \E o \in OutputStage(stdout, "stdout_callback", "stdout_callback") :
         /\ trace' = trace \o o.events
         /\ pc' = IF o.pc = "" THEN "stderr" ELSE o.pc
         /\ exc' = o.exc
         /\ ended_by' = o.ended_by
    /\ UNCHANGED << cli, cfg, typed, arguments_str, session_history, command_counter,
                    hook_i, process, stdout, stderr, spawned, prompts,
                    log_file_handle, scenario_pos >>

\* if stderr: config.stderr_callback(stderr), and the log; then the return
\* code, shown when asked for and not zero.
HandleStderr ==
    /\ pc = "stderr"
    /\ \E o \in OutputStage(stderr, "stderr_callback", "stderr_callback") :
         LET shown == IF cfg.show_return_code /\ process.returncode # 0
                      THEN <<Ev("show_return_code", "")>> ELSE <<>>
         IN  /\ trace' = trace \o o.events \o (IF o.pc = "" THEN shown ELSE <<>>)
             /\ pc' = IF o.pc = "" THEN AfterPostHooks(1) ELSE o.pc
             /\ hook_i' = IF o.pc = "" THEN 1 ELSE hook_i
             /\ exc' = o.exc
             /\ ended_by' = o.ended_by
    /\ UNCHANGED << cli, cfg, typed, arguments_str, session_history, command_counter,
                    process, stdout, stderr, spawned, prompts, log_file_handle,
                    scenario_pos >>

\* One post-command hook: it returns, or it raises.
PostHook ==
    /\ pc = "post_hooks"
    /\ LET name == cfg.post_command_hooks[hook_i]
           called == Ev("post_hook", name)
       IN  \/ /\ trace' = Append(trace, called)
              /\ hook_i' = hook_i + 1
              /\ pc' = AfterPostHooks(hook_i + 1)
              /\ UNCHANGED <<exc, ended_by>>
           \/ \E e \in CallbackRaises :
                LET hh == HookExcept(e, "post_hook", "report_post_hook_error")
                    \* a hook's exception that its own handler lets through
                    \* is next met by the handlers around the execution
                    h == IF hh.pc = "" THEN hh ELSE ExecExcept(e, "post_hook")
                IN  /\ trace' = trace \o <<called, Ev("raised", e)>> \o h.events
                    /\ IF h.pc = ""
                       THEN /\ hook_i' = hook_i + 1
                            /\ pc' = AfterPostHooks(hook_i + 1)
                       ELSE /\ hook_i' = hook_i
                            /\ pc' = h.pc
                    /\ exc' = h.exc
                    /\ ended_by' = h.ended_by
    /\ UNCHANGED << cli, cfg, typed, arguments_str, session_history, command_counter,
                    process, stdout, stderr, spawned, prompts, log_file_handle,
                    scenario_pos >>

\* config.command_counter += 1, and back to the top of the loop; the
\* iteration's local variables are dead from here on.
Increment ==
    /\ pc = "increment"
    /\ command_counter' = command_counter + 1
    /\ pc' = "prompt"
    /\ typed' = <<>>
    /\ arguments_str' = <<>>
    /\ hook_i' = 1
    /\ process' = NoProcess
    /\ stdout' = ""
    /\ stderr' = ""
    /\ trace' = <<>>
    /\ UNCHANGED << cli, cfg, session_history, spawned, prompts, log_file_handle, exc,
                    ended_by, scenario_pos >>

\* replize() left without the close of the log.
Finally_leaves_log_open ==
    /\ pc = "finally"
    /\ pc' = "done"
    /\ UNCHANGED << cli, cfg, typed, arguments_str, session_history, command_counter,
                    hook_i, process, stdout, stderr, trace, spawned, prompts,
                    log_file_handle, exc, ended_by, scenario_pos >>

\* The finally of replize(): the log is closed, and replize() returns or
\* lets the exception through.
Finally ==
    /\ pc = "finally"
    /\ pc' = "done"
    /\ log_file_handle' = IF log_file_handle = "open" THEN "closed" ELSE log_file_handle
    /\ trace' = IF log_file_handle = "open" THEN Append(trace, Ev("log_close", ""))
                ELSE trace
    /\ UNCHANGED << cli, cfg, typed, arguments_str, session_history, command_counter,
                    hook_i, process, stdout, stderr, spawned, prompts, exc,
                    ended_by, scenario_pos >>

Next ==
    \/ Start
    \/ ReadLine
    \/ Dispatch
    \/ PreHook
    \/ Spawn
    \/ Communicate
    \/ HandleStdout
    \/ HandleStderr
    \/ PostHook
    \/ Increment
    \/ Finally

Spec == Init /\ [][Next]_vars

\* ------------------------------------------- the executor taken on its own

\* The characters of the strings the executor is applied to: a letter, a
\* blank, a quote and the escape character.
ExecutorAlphabet == {"a", " ", "'", "\\"}

\* The strings of 1 to n characters over that alphabet.
ExecutorStrings(n) ==
    UNION {[1..k -> ExecutorAlphabet] : k \in 1..n}

\* The base commands: any such string (validate_command is off).
ExecutorCommands == ExecutorStrings(MaxStrLen)

\* The lines that reach the executor: stripped and not empty.
ExecutorLines == {l \in ExecutorStrings(MaxStrLen) : strip(l) = l}

\* The loop at line 471, for a session without hooks whose first line has
\* just been appended to the history.
ExecutorInit ==
    /\ cfg \in [ command : ExecutorCommands,
                 exit_commands : {{s_exit, s_quit}},
                 exit_exceptions : {{"EOFError", "KeyboardInterrupt"}},
                 timeout : {"None"},
                 log_file : {"None"},
                 pre_command_hooks : {<<>>},
                 post_command_hooks : {<<>>},
                 show_return_code : {TRUE},
                 validate_command : {FALSE} ]
    /\ arguments_str \in ExecutorLines
    /\ typed = arguments_str
    /\ session_history = <<arguments_str>>
    /\ pc = "spawn"
    /\ command_counter = 0
    /\ hook_i = 1
    /\ process = NoProcess
    /\ stdout = ""
    /\ stderr = ""
    /\ trace = <<Ev("prompt", ""), Ev("input", "line"), Ev("history_append", "")>>
    /\ spawned = <<>>
    /\ prompts = 1
    /\ log_file_handle = "None"
    /\ exc = ""
    /\ ended_by = ""
    /\ scenario_pos = -1
    /\ cli = NoCli

ExecutorNext == Spawn

SpecExecutor == ExecutorInit /\ [][ExecutorNext]_vars

\* ------------------------------------------- the command line entry point

\* A value is the name of the layer it comes from; "0.0" is --timeout 0,
\* "None" an option argparse leaves at None, "absent" a key a layer does
\* not set.

\* The defaults of the argparse options: those of --prompt-template and
\* --exit-commands are the values replize() itself defaults to.
ArgparseDefault(k) ==
    IF k \in {"prompt_template", "exit_commands"} THEN "hardcoded" ELSE "None"

\* The value the session works with for a key that replize() is not given.
HardcodedDefault(k) ==
    IF k \in {"prompt_template", "exit_commands"} THEN "hardcoded" ELSE "None"

\* args = parser.parse_args()
parse_args(given) ==
    [k \in CliKeys |-> IF given[k] = "absent" THEN ArgparseDefault(k) ELSE given[k]]

\* if args.x:
Truthy(v) == v \notin {"None", "0.0"}

\* for key, value in layer.items(): kwargs[key] = value
ApplyLayer(kwargs, layer) ==
    [k \in CliKeys |-> IF layer[k] # "absent" THEN layer[k] ELSE kwargs[k]]

\* The kwargs _replize_cli builds: the file's defaults, the file's block
\* for the command over them, then the command line's arguments.
MergedKwargs(c) ==
    LET args == parse_args(c.given)
        from_file == ApplyLayer(ApplyLayer(NoCli.kwargs, c.file_defaults),
                                c.file_command)
    IN  [k \in CliKeys |->
           IF k \in {"prompt_template", "exit_commands"} THEN args[k]
           ELSE IF Truthy(args[k]) THEN args[k]
           ELSE from_file[k]]

\* What the command line and the configuration file may hold.
CliInputs ==
    [ file_defaults : [CliKeys -> {"absent", "file_defaults"}],
      file_command : [CliKeys -> {"absent", "file_command"}],
      given : {g \in [CliKeys -> {"absent", "cli", "0.0"}] :
                  \A k \in CliKeys : g[k] = "0.0" => k = "timeout"},
      kwargs : {NoCli.kwargs} ]

\* _replize_cli is entered; no ReplizeConfig exists yet, only the command
\* is known.
CliInit ==
    /\ cli \in CliInputs
    /\ pc = "cli"
    /\ cfg = [command |-> s_ls]
    /\ typed = <<>>
    /\ arguments_str = <<>>
    /\ session_history = <<>>
    /\ command_counter = 0
    /\ hook_i = 1
    /\ process = NoProcess
    /\ stdout = ""
    /\ stderr = ""
    /\ trace = <<>>
    /\ spawned = <<>>
    /\ prompts = 0
    /\ log_file_handle = "None"
    /\ exc = ""
    /\ ended_by = ""
    /\ scenario_pos = 0

\* _replize_cli up to its call replize(command=args.command, **kwargs)
ReplizeCli ==
    /\ pc = "cli"
    /\ cli' = [cli EXCEPT !.kwargs = MergedKwargs(cli)]
    /\ pc' = "replize"
    /\ UNCHANGED << cfg, typed, arguments_str, session_history, command_counter,
                    hook_i, process, stdout, stderr, trace, spawned, prompts,
                    log_file_handle, exc, ended_by, scenario_pos >>

CliNext == ReplizeCli

SpecCli == CliInit /\ [][CliNext]_vars

\* ------------------------------------------ sessions with validation off

\* The configurations of Configs with validate_command either way, one
\* set of exit exceptions and no timeout.
StartupConfigs ==
    [ command : {s_ls},
      exit_commands : {{s_exit, s_quit}},
      exit_exceptions : {{"EOFError", "KeyboardInterrupt"}},
      timeout : {"None"},
      log_file : {"None", "set"},
      pre_command_hooks : {<<"pre1", "pre2">>},
      post_command_hooks : {<<"post1", "post2">>},
      show_return_code : {TRUE},
      validate_command : BOOLEAN ]

StartupInit ==
    /\ cfg \in StartupConfigs
    /\ pc = "start"
    /\ typed = <<>>
    /\ arguments_str = <<>>
    /\ session_history = <<>>
    /\ command_counter = 0
    /\ hook_i = 1
    /\ process = NoProcess
    /\ stdout = ""
    /\ stderr = ""
    /\ trace = <<>>
    /\ spawned = <<>>
    /\ prompts = 0
    /\ log_file_handle = "None"
    /\ exc = ""
    /\ ended_by = ""
    /\ scenario_pos = 0
    /\ cli = NoCli

SpecStartup == StartupInit /\ [][Next]_vars


\* ------------------------------------------------------------------ claims

HasEv(name) == \E k \in 1..Len(trace) : trace[k].ev = name

EvCount(name) == Cardinality({k \in 1..Len(trace) : trace[k].ev = name})

IsWhitespaceOnly(l) == \A k \in 1..Len(l) : l[k] \in WS

\* The step that issued a prompt and got a line back from the reader.
LineWasRead == prompts' = prompts + 1 /\ (trace')[2] = Ev("input", "line")

\* The step that issued a prompt and had the reader raise e.
ReaderSignalled(e) == prompts' = prompts + 1 /\ (trace')[2] = Ev("input", e)

\* Once replize() is leaving, it issues no prompt, spawns nothing and ends.
StaysEnded ==
    pc \in {"finally", "done"} =>
        /\ pc' = "done"
        /\ prompts' = prompts
        /\ spawned' = spawned
        /\ exc' = exc

\* The line "!i" for a one-digit index i.
RefLine(i) == <<"!", CHOOSE c \in DOMAIN DigitVal : DigitVal[c] = i>>

ls_l == <<s_ls, <<"-", "l">>>>

\* C1: a line that is empty or only whitespace spawns no subprocess, leaves
\* the command counter (and the session history) as they were, and the loop
\* is back at its prompt.
C1_WhitespaceLineIgnored ==
    [][ (LineWasRead /\ IsWhitespaceOnly(typed')) =>
            /\ pc' = "prompt"
            /\ spawned' = spawned
            /\ process' = process
            /\ command_counter' = command_counter
            /\ session_history' = session_history ]_vars

C1_Witness ==
    /\ pc = "prompt"
    /\ typed = <<" ", "\t">>
    /\ command_counter = 1
    /\ Len(spawned) = 1
    /\ prompts < MaxPrompts

\* C2: a line whose first whitespace-delimited token is one of the exit words
\* ends the session: the step that dispatches it spawns nothing and leaves
\* the loop, and from then on no prompt is issued and nothing is spawned.
C2_ExitWordEndsSession ==
    [][ /\ (pc = "dispatch" /\ split(typed)[1] \in cfg.exit_commands) =>
              /\ pc' = "finally"
              /\ spawned' = spawned
              /\ process' = process
              /\ exc' = ""
        /\ StaysEnded ]_vars

C2_Witness ==
    /\ pc = "done"
    /\ ended_by = "exit_word"
    /\ typed = s_quit \o <<" ", "x">>
    /\ Len(spawned) = 1
    /\ prompts < MaxPrompts

\* C3: when the reader raises one of the configured exit exceptions, the
\* session ends normally: nothing is spawned for that iteration, replize()
\* leaves without an exception, and no further prompt is issued.
C3_ExitSignalEndsSession ==
    [][ /\ \A e \in cfg.exit_exceptions :
              ReaderSignalled(e) =>
                  /\ pc' = "finally"
                  /\ exc' = ""
                  /\ spawned' = spawned
                  /\ process' = process
        /\ StaysEnded ]_vars

C3_Witness ==
    /\ pc = "done"
    /\ ended_by = "reader"
    /\ exc = ""
    /\ trace[2] = Ev("input", "CustomExit")
    /\ command_counter = 1
    /\ prompts < MaxPrompts

\* C4: for an index i in range, the line !i is rewritten to the entry stored
\* at position i, that entry is what is tokenized and handed to Popen after
\* the base command, and no step changes an entry already in the history, so
\* that a second !i runs the same string again.
C4_ReplayRunsStoredEntry ==
    [][ /\ \A i \in 0..(Len(session_history) - 1) :
              (pc = "dispatch" /\ typed = RefLine(i)) =>
                  /\ pc' \in {"pre_hooks", "spawn"}
                  /\ arguments_str' = session_history[i + 1]
                  /\ session_history' = Append(session_history, session_history[i + 1])
        /\ \A i \in 0..(Len(session_history) - 2) :
              (pc = "spawn" /\ typed = RefLine(i)) =>
                  LET argv == shlex_split(cfg.command \o <<" ">> \o session_history[i + 1])
                  IN  IF argv.ok
                      THEN spawned' = Append(spawned, argv.tokens)
                      ELSE spawned' = spawned
        /\ \A k \in 1..Len(session_history) :
              /\ Len(session_history') >= k
              /\ session_history'[k] = session_history[k] ]_vars

C4_Witness ==
    /\ pc = "communicate"
    /\ typed = RefLine(0)
    /\ prompts = 3
    /\ session_history = << <<"-", "l">>, <<"-", "l">>, <<"-", "l">> >>
    /\ spawned = <<ls_l, ls_l, ls_l>>

\* The text after the "!" of a one-token line is no index into the history.
IsInvalidReference(a, history) ==
    /\ Len(a) > 1
    /\ Head(a) = "!"
    /\ Len(split(a)) = 1
    /\ LET n == int(Tail(a))
       IN  ~n.ok \/ n.val < 0 \/ n.val >= Len(history)

\* C5: a line !<n> whose n is out of range or is no number is reported and
\* dropped: nothing is spawned, the history and the counter keep their
\* values, the session goes on (nothing is raised) and is back at its prompt.
C5_InvalidReferenceReported ==
    [][ (pc = "dispatch" /\ IsInvalidReference(arguments_str, session_history)) =>
            /\ pc' = "prompt"
            /\ (trace')[Len(trace')].ev \in {"report_invalid_ref", "report_out_of_range"}
            /\ spawned' = spawned
            /\ process' = process
            /\ session_history' = session_history
            /\ command_counter' = command_counter
            /\ exc' = ""
            /\ ended_by' = "" ]_vars

C5_Witness ==
    /\ pc = "prompt"
    /\ typed = <<"!", "1">>
    /\ Len(session_history) = 1
    /\ trace[Len(trace)].ev = "report_out_of_range"
    /\ prompts < MaxPrompts

\* The session of the scenario is over: -l, !0 and exit were read, in that
\* order and nothing else, with base command ls.
ScenarioDone == scenario_pos = Len(Scenario) /\ cfg.command = s_ls /\ pc = "done"

\* C6 as the specification states it: Popen was called twice with ['ls',
\* '-l'], the counter ends at 2 and the history holds the one entry -l.
C6_ScenarioAsClaimed ==
    ScenarioDone =>
        /\ spawned = <<ls_l, ls_l>>
        /\ command_counter = 2
        /\ session_history = << <<"-", "l">> >>

\* C6, amended: Popen was called twice with ['ls', '-l'], the counter ends
\* at 2 and the history holds two entries, -l at index 0 and the replayed -l
\* at index 1.
C6_ScenarioAmended ==
    ScenarioDone =>
        /\ spawned = <<ls_l, ls_l>>
        /\ command_counter = 2
        /\ session_history = << <<"-", "l">>, <<"-", "l">> >>
        /\ ended_by = "exit_word"
        /\ exc = ""

C6_Witness == ScenarioDone /\ command_counter = 2

\* C7: when communicate() runs into the configured timeout, the child is
\* killed, the time-out is reported as such and not as a generic error of
\* execution, and the output collected after the kill is still routed.
C7_TimeoutKillsChild ==
    (\E k \in 1..Len(trace) : trace[k] = Ev("communicate", "TimeoutExpired")) =>
        /\ process.state = "killed"
        /\ HasEv("kill")
        /\ HasEv("report_timeout")
        /\ ~(\E k \in 1..Len(trace) : trace[k] = Ev("report_error", "TimeoutExpired"))
        /\ pc \in {"stdout", "stderr", "post_hooks", "increment", "finally", "done"}

\* replize() is leaving, or has left, a loop that it had entered.
LoopEnded == pc \in {"finally", "done"} /\ ended_by \notin {"validate", "log_open"}

C9_CallbackExitExceptionExits ==
    \A k \in 1..(Len(trace) - 1) :
        ( /\ trace[k].ev \in {"stdout_callback", "stderr_callback"}
          /\ trace[k + 1].ev = "raised"
          /\ Bases(trace[k + 1].arg) \cap cfg.exit_exceptions # {} )
        => pc \in {"finally", "done"}

\* The child of the current line has completed and the handling of its
\* output is over.
OutputHandled ==
    process.state = "exited" /\ pc \in {"post_hooks", "increment", "finally", "done"}

\* The callback of a stream was called once with v when v is not empty, and
\* not at all when it is.
CalledOnceIffNonEmpty(callback, v) ==
    /\ EvCount(callback) = IF v # "" THEN 1 ELSE 0
    /\ \A k \in 1..Len(trace) : trace[k].ev = callback => trace[k].arg = v

\* The handling of stdout raised: its callback, or the write to the log.
StdoutStageRaised ==
    \E k \in 1..(Len(trace) - 1) :
        /\ trace[k].ev = "stdout_callback"
        /\ trace[k + 1].ev \in {"raised", "log_write_failed"}

StdoutBeforeStderr ==
    \A j, k \in 1..Len(trace) :
        (trace[j].ev = "stdout_callback" /\ trace[k].ev = "stderr_callback") => j < k

\* C10 as the specification states it, for a line whose handling is over and
\* whose child completed: each callback was called exactly once with its
\* stream when the stream is not empty and not at all when it is, stdout
\* first, and one Popen call was made for the line.
C10_OutputRoutingAsClaimed ==
    (process.state = "exited" /\ pc = "increment") =>
        /\ CalledOnceIffNonEmpty("stdout_callback", stdout)
        /\ CalledOnceIffNonEmpty("stderr_callback", stderr)
        /\ StdoutBeforeStderr
        /\ EvCount("popen") = 1

\* C10, amended: the stdout callback is called exactly once with stdout when
\* stdout is not empty and not at all when it is; the stderr callback is
\* called exactly once with stderr when stderr is not empty and the handling
\* of stdout raised nothing, and not at all otherwise; stdout first; one
\* Popen call was made for the line.
C10_OutputRoutingAmended ==
    OutputHandled =>
        /\ CalledOnceIffNonEmpty("stdout_callback", stdout)
        /\ IF StdoutStageRaised
           THEN EvCount("stderr_callback") = 0
           ELSE CalledOnceIffNonEmpty("stderr_callback", stderr)
        /\ StdoutBeforeStderr
        /\ EvCount("popen") = 1

C10_Witness ==
    /\ pc = "increment"
    /\ process.state = "exited"
    /\ stdout = "out"
    /\ stderr = "err"
    /\ \E j, k \in 1..Len(trace) :
          /\ j < k
          /\ trace[j] = Ev("stdout_callback", "out")
          /\ trace[k] = Ev("stderr_callback", "err")

\* C11: the argument vector handed to the spawn is the tokens of the base
\* command followed by the tokens of the line, nothing added and nothing
\* dropped.  As claimed, for every base command and every line that is
\* executed.
C11_ArgvAsClaimed ==
    (pc # "spawn" /\ spawned # <<>>) =>
        /\ shlex_split(cfg.command).ok
        /\ shlex_split(arguments_str).ok
        /\ spawned[1] = shlex_split(cfg.command).tokens
                           \o shlex_split(arguments_str).tokens

\* C11 amended: when the base command tokenizes on its own, the line is
\* executed exactly when it tokenizes on its own, and the argument vector
\* is then the tokens of the base command followed by the tokens of the
\* line.
C11_ArgvIsBaseThenLineTokens ==
    (pc # "spawn" /\ shlex_split(cfg.command).ok) =>
        /\ spawned # <<>> <=> shlex_split(arguments_str).ok
        /\ spawned # <<>> =>
              spawned[1] = shlex_split(cfg.command).tokens
                             \o shlex_split(arguments_str).tokens

\* The base command a spawned with the line "a a": three tokens.
C11_Witness ==
    /\ pc = "communicate"
    /\ cfg.command = <<"a">>
    /\ arguments_str = <<"a", " ", "a">>
    /\ spawned = << << <<"a">>, <<"a">>, <<"a">> >> >>

\* A line with a quote left open: an odd number of single quotes, no double
\* quote and no escape character.
HasUnterminatedQuote(a) ==
    /\ Cardinality({k \in 1..Len(a) : a[k] = "'"}) % 2 = 1
    /\ \A k \in 1..Len(a) : a[k] \notin {"\"", "\\"}

\* C12: a line with an unterminated quote fails tokenization as a per-line
\* error: the error is reported, no subprocess is spawned, nothing is
\* raised, the session does not end and the next prompt is issued.
C12_UnterminatedQuoteIsPerLineError ==
    [][ /\ (pc = "spawn" /\ HasUnterminatedQuote(arguments_str)) =>
              /\ trace' = Append(trace, Ev("report_error", "ValueError"))
              /\ spawned' = spawned
              /\ process' = NoProcess
              /\ exc' = ""
              /\ ended_by' = ""
              /\ pc' = "increment"
        /\ pc = "increment" =>
              /\ pc' \in {"increment", "prompt"}
              /\ exc' = ""
              /\ ended_by' = ""
              /\ spawned' = spawned ]_vars

\* The line 'a as the second line, reported after an executed first line.
C12_Witness ==
    /\ pc = "increment"
    /\ arguments_str = <<"'", "a">>
    /\ trace[Len(trace)] = Ev("report_error", "ValueError")
    /\ ~HasEv("popen")
    /\ Len(spawned) = 1

\* Where the loop is while the executor has the line: from the tokenization
\* to the last post hook.
ExecutorPcs == {"spawn", "communicate", "stdout", "stderr", "post_hooks"}

LastEv(t) == IF t = <<>> THEN Ev("", "") ELSE t[Len(t)]

\* C13: the command counter never decreases; it goes up by exactly one for
\* a line that reached the executor, whatever the outcome, and stays as it
\* is for empty lines, builtins and invalid history references.  As
\* claimed: every line that reached the executor gets to the increment.
C13_CounterAsClaimed ==
    [][ /\ command_counter' \in {command_counter, command_counter + 1}
        /\ command_counter' = command_counter + 1 <=>
              (pc = "increment" /\ pc' = "prompt")
        /\ pc \in ExecutorPcs => pc' \in ExecutorPcs \cup {"increment"}
        /\ pc \in {"prompt", "dispatch"} =>
              command_counter' = command_counter /\ pc' # "increment"
      ]_vars

\* C13 amended: the command counter never decreases; it goes up by exactly
\* one for a line that reached the executor, whatever the outcome
\* (completion, command not found, timeout, other execution error), unless
\* an exception that is not an Exception ends the session from inside the
\* executor; it stays as it is for empty lines, builtins and invalid
\* history references.
C13_CounterCountsExecutedLines ==
    [][ /\ command_counter' \in {command_counter, command_counter + 1}
        /\ command_counter' = command_counter + 1 <=>
              (pc = "increment" /\ pc' = "prompt")
        \* from the executor the loop goes to the increment, unless an
        \* exception that is not an Exception ends the session
        /\ pc \in ExecutorPcs =>
              \/ pc' \in ExecutorPcs \cup {"increment"}
              \/ /\ pc' = "finally"
                 /\ LastEv(trace').ev = "outer_except"
                 /\ ~IsInstance(LastEv(trace').arg, "Exception")
        /\ (pc \in ExecutorPcs
              /\ LastEv(trace').ev \in {"report_not_found", "report_error"}) =>
              pc' = "increment"
        /\ (pc = "communicate"
              /\ \E k \in 1..Len(trace') :
                    (trace')[k] = Ev("communicate", "TimeoutExpired")) =>
              pc' = "increment"
        \* a line that goes back to the prompt without reaching the
        \* executor is not counted
        /\ pc \in {"prompt", "dispatch"} =>
              command_counter' = command_counter /\ pc' # "increment"
      ]_vars

\* Three lines read: two of them reached the executor and failed there
\* before any spawn, one did not reach it; the counter is 2.
C13_Witness ==
    /\ pc = "prompt"
    /\ prompts = 3
    /\ command_counter = 2
    /\ Len(session_history) = 2
    /\ spawned = <<>>

IsPrefix(h, g) == Len(h) <= Len(g) /\ \A k \in 1..Len(h) : g[k] = h[k]

\* C14: the session history is append-only with stable indices: the
\* history at any earlier moment is a prefix of the history at any later
\* moment.
C14_HistoryAppendOnly ==
    [][IsPrefix(session_history, session_history')]_vars

\* Three entries recorded one after the other, the first two different.
C14_Witness ==
    /\ Len(session_history) = 3
    /\ session_history[1] # session_history[2]
    /\ pc = "prompt"

\* The first whitespace-delimited token of a non-empty stripped line.
FirstToken(a) == split(a)[1]

IsBuiltinLine(a) == FirstToken(a) \in {s_help, <<"?">>, s_history, s_clear}

\* The line is ! followed by an index into the history.
IsValidReference(a, history) ==
    /\ Len(a) > 1
    /\ Head(a) = "!"
    /\ int(Tail(a)).ok
    /\ int(Tail(a)).val \in 0..(Len(history) - 1)

\* The line after the history rewriting.
Rewritten(a, history) ==
    IF IsValidReference(a, history) THEN history[int(Tail(a)).val + 1] ELSE a

\* C15: every non-empty line that is neither an exit word, a handled
\* builtin nor an invalid history reference appends exactly one entry, equal
\* to the line after the history rewriting (a valid !n appends a copy of
\* the entry it names); the append comes before any pre hook and before the
\* spawn, and the entry is there whatever the hooks and the spawn do.
C15_ExecutedLineAppendsOneEntry ==
    [][ /\ (/\ pc = "dispatch"
            /\ FirstToken(arguments_str) \notin cfg.exit_commands
            /\ ~IsBuiltinLine(arguments_str)
            /\ ~IsInvalidReference(arguments_str, session_history)) =>
              /\ session_history' =
                    Append(session_history, Rewritten(arguments_str, session_history))
              /\ arguments_str' = Rewritten(arguments_str, session_history)
              /\ pc' \in {"pre_hooks", "spawn"}
              /\ spawned' = spawned
              /\ \A k \in 1..Len(trace') : (trace')[k].ev # "pre_hook"
        /\ session_history' # session_history => pc = "dispatch"
        /\ pc \in {"pre_hooks", "increment"} \cup ExecutorPcs =>
              /\ session_history' = session_history
              /\ session_history[Len(session_history)] = arguments_str
      ]_vars

\* The replay !0 of the entry -l: a copy was appended, and it is there
\* although the spawn failed.
C15_Witness ==
    /\ pc = "increment"
    /\ typed = RefLine(0)
    /\ session_history = << <<"-", "l">>, <<"-", "l">> >>
    /\ LastEv(trace).ev = "report_not_found"

\* What the dispatcher does for each builtin word.
BuiltinEvent(w) ==
    IF w \in {s_help, <<"?">>} THEN "print_help"
    ELSE IF w = s_history THEN "print_history"
    ELSE "clear"

\* C16: a line whose first token is help, ?, history or clear, and is not
\* an exit word, is handled by the builtin dispatcher whatever follows the
\* token: nothing is spawned, no hook runs, and the history and the counter
\* keep their values.
C16_BuiltinLineHandled ==
    [][ (/\ pc = "dispatch"
         /\ IsBuiltinLine(arguments_str)
         /\ FirstToken(arguments_str) \notin cfg.exit_commands) =>
            /\ pc' = "prompt"
            /\ LastEv(trace') = Ev(BuiltinEvent(FirstToken(arguments_str)), "")
            /\ \A k \in 1..Len(trace') :
                  (trace')[k].ev \notin {"pre_hook", "post_hook", "popen"}
            /\ spawned' = spawned
            /\ process' = process
            /\ session_history' = session_history
            /\ command_counter' = command_counter ]_vars

\* The line " ? x " after an executed line: help was printed, the loop is
\* back at the prompt with one command counted.
C16_Witness ==
    /\ pc = "prompt"
    /\ typed = <<" ", "?", " ", "x", " ">>
    /\ LastEv(trace) = Ev("print_help", "")
    /\ command_counter = 1
    /\ Len(session_history) = 1
    /\ Len(spawned) = 1

\* A token made of ! and digits.
IsDigitsReference(tok) ==
    /\ Len(tok) > 1
    /\ Head(tok) = "!"
    /\ \A k \in 2..Len(tok) : IsDigit(tok[k])

\* C17: history references are recognised by the first token: for every
\* line whose first token is !<digits>, further text or not, an index in
\* range rewrites the line to the entry it names and an index out of range
\* is reported and the execution suppressed; no argument vector handed to
\* the spawn has a literal !<digits> token.
C17_ReferenceByFirstToken ==
    [][ /\ (pc = "dispatch" /\ IsDigitsReference(FirstToken(arguments_str))) =>
              LET n == int(Tail(FirstToken(arguments_str))).val
              IN  IF n < Len(session_history)
                  THEN /\ arguments_str' = session_history[n + 1]
                       /\ session_history' =
                             Append(session_history, session_history[n + 1])
                  ELSE /\ pc' = "prompt"
                       /\ LastEv(trace').ev = "report_out_of_range"
                       /\ session_history' = session_history
                       /\ spawned' = spawned
        /\ \A i \in 1..Len(spawned') : \A j \in 1..Len(spawned'[i]) :
              ~IsDigitsReference(spawned'[i][j])
      ]_vars

\* The step in which a hook was called and raised.
HookRaised ==
    /\ pc \in {"pre_hooks", "post_hooks"}
    /\ Len(trace') >= Len(trace) + 2
    /\ (trace')[Len(trace) + 2].ev = "raised"

\* The failure is reported and the loop goes on with the next hook or, after
\* the last one, with what follows the hooks.
HookFailureIsolated ==
    LET hooks == IF pc = "pre_hooks" THEN cfg.pre_command_hooks
                 ELSE cfg.post_command_hooks
    IN  /\ Len(trace') = Len(trace) + 3
        /\ (trace')[Len(trace) + 3] =
              Ev(IF pc = "pre_hooks" THEN "report_pre_hook_error"
                 ELSE "report_post_hook_error",
                 (trace')[Len(trace) + 2].arg)
        /\ hook_i' = hook_i + 1
        /\ pc' = IF hook_i < Len(hooks) THEN pc
                 ELSE IF pc = "pre_hooks" THEN "spawn" ELSE "increment"
        /\ exc' = ""
        /\ ended_by' = ""

\* The names of the hooks called so far in the iteration, in order.
HooksCalled(t, kind) ==
    LET calls == SelectSeq(t, LAMBDA x : x.ev = kind)
    IN  [k \in 1..Len(calls) |-> calls[k].arg]

\* C18: hook failures are isolated per hook: a hook that raises is reported,
\* the later hooks still run in order, the command is still spawned after
\* the pre hooks, and the session goes on to the next prompt.  As claimed,
\* whatever the hook raises.
C18_HookFailureAsClaimed ==
    [][HookRaised => HookFailureIsolated]_vars

\* C18 amended: the same for a hook that raises an instance of Exception;
\* every iteration that gets to the spawn has called all the pre hooks in
\* order, and every iteration that leaves the post hooks for the counter
\* has called all the post hooks in order.
C18_HookExceptionIsolated ==
    [][ /\ (HookRaised /\ IsInstance((trace')[Len(trace) + 2].arg, "Exception"))
              => HookFailureIsolated
        /\ (pc = "pre_hooks" /\ pc' = "spawn") =>
              HooksCalled(trace', "pre_hook") = cfg.pre_command_hooks
        /\ (pc = "post_hooks" /\ pc' = "increment") =>
              HooksCalled(trace', "post_hook") = cfg.post_command_hooks
      ]_vars

\* Both pre hooks and both post hooks raised, the command was spawned in
\* between, and the loop is about to count it.
C18_Witness ==
    /\ pc = "increment"
    /\ EvCount("report_pre_hook_error") = 2
    /\ EvCount("report_post_hook_error") = 2
    /\ HooksCalled(trace, "pre_hook") = cfg.pre_command_hooks
    /\ HooksCalled(trace, "post_hook") = cfg.post_command_hooks
    /\ HasEv("popen")

\* The stages of one iteration, in the order the claim gives them.
StageOrder ==
    << "prompt", "input", "history_append", "pre_hook", "popen", "communicate",
       "stdout_callback", "stderr_callback", "show_return_code", "post_hook" >>

IsStage(ev) == \E n \in 1..Len(StageOrder) : StageOrder[n] = ev

Stage(ev) == CHOOSE n \in 1..Len(StageOrder) : StageOrder[n] = ev

\* The stage events of a trace, in the order they happened.
StagesOf(t) ==
    LET st == SelectSeq(t, LAMBDA x : IsStage(x.ev))
    IN  [k \in 1..Len(st) |-> st[k].ev]

\* Each stage event is followed by one of a later stage, or, for the hooks,
\* by one more of the same stage.
InStageOrder(t) ==
    LET st == StagesOf(t)
    IN  \A k \in 1..(Len(st) - 1) :
          \/ Stage(st[k]) < Stage(st[k + 1])
          \/ st[k] = st[k + 1] /\ st[k] \in {"pre_hook", "post_hook"}

Repeat(ev, n) == [k \in 1..n |-> ev]

\* The stage events of an iteration that ran with nothing raised after the
\* child completed.
CompleteIteration ==
    <<"prompt", "input", "history_append">>
    \o Repeat("pre_hook", Len(cfg.pre_command_hooks))
    \o <<"popen", "communicate">>
    \o (IF stdout # "" THEN <<"stdout_callback">> ELSE <<>>)
    \o (IF stderr # "" THEN <<"stderr_callback">> ELSE <<>>)
    \o (IF cfg.show_return_code /\ process.returncode # 0
        THEN <<"show_return_code">> ELSE <<>>)
    \o Repeat("post_hook", Len(cfg.post_command_hooks))

\* C19: the loop is strictly sequential.  The events of an executed line
\* happen in the order history append, pre hooks, spawn and wait, stdout and
\* stderr routing, return-code display, post hooks, and the counter is
\* incremented after them; an iteration whose child completed and in which
\* nothing was raised afterwards has all of them; between the history
\* append and the increment no prompt is issued and no second subprocess is
\* spawned.
C19_StrictlySequential ==
    [][ /\ InStageOrder(trace')
        /\ (pc' = "increment" /\ process'.state = "exited"
              /\ \A k \in 1..Len(trace') : (trace')[k].ev # "report_error") =>
              /\ StagesOf(trace') = CompleteIteration'
              /\ HooksCalled(trace', "pre_hook") = cfg.pre_command_hooks
              /\ HooksCalled(trace', "post_hook") = cfg.post_command_hooks
        /\ prompts' # prompts => pc = "prompt"
        /\ command_counter' # command_counter => pc = "increment" /\ pc' = "prompt"
        /\ spawned' # spawned =>
              /\ pc = "spawn"
              /\ Len(spawned') = Len(spawned) + 1
              /\ \A k \in 1..Len(trace) : trace[k].ev # "popen"
        /\ pc \in {"pre_hooks", "increment"} \cup ExecutorPcs =>
              /\ pc' \in {"pre_hooks", "increment", "prompt", "finally"} \cup ExecutorPcs
              /\ pc' = "prompt" => pc = "increment"
      ]_vars

\* A complete iteration as the second line of the session: both streams
\* routed, the return code shown, all hooks called.
C19_Witness ==
    /\ pc = "increment"
    /\ command_counter = 1
    /\ process = [state |-> "exited", returncode |-> 1]
    /\ StagesOf(trace) =
          << "prompt", "input", "history_append", "pre_hook", "pre_hook",
             "popen", "communicate", "stdout_callback", "stderr_callback",
             "show_return_code", "post_hook", "post_hook" >>

\* The number of writes to the log among the events of a trace.
LogWrites(t) == Len(SelectSeq(t, LAMBDA x : x.ev = "log_write"))

\* C20: a log file opened at startup is closed on every way the session
\* ends (exit word, exit signal, exception leaving the loop), exactly once,
\* and nothing is written to it after the close.
C20_LogClosedOnEveryEnd ==
    [][ /\ (pc = "finally" /\ log_file_handle = "open") =>
              /\ pc' = "done"
              /\ log_file_handle' = "closed"
              /\ trace' = Append(trace, Ev("log_close", ""))
        /\ (log_file_handle' = "closed" /\ log_file_handle # "closed") =>
              pc = "finally" /\ log_file_handle = "open"
        /\ log_file_handle = "closed" =>
              log_file_handle' = "closed" /\ trace' = trace
        /\ LogWrites(trace') > LogWrites(trace) =>
              /\ log_file_handle' = "open"
              /\ pc # "start" => log_file_handle = "open"
        /\ pc' = "done" => log_file_handle' # "open"
        /\ (pc' = "done" /\ pc # "start") => pc = "finally"
      ]_vars

\* A session with a log ended by a KeyboardInterrupt that is not one of its
\* exit exceptions, raised while waiting for the second line's child: the
\* log was closed and the exception is on its way out of replize().
C20_Witness ==
    /\ pc = "done"
    /\ log_file_handle = "closed"
    /\ exc = "KeyboardInterrupt"
    /\ ended_by = "communicate"
    /\ command_counter = 1
    /\ LastEv(trace) = Ev("log_close", "")

\* C21: a line that fails tokenization is discarded: no step of its
\* handling changes the session history or the command counter, as for a
\* discarded invalid history reference.  As claimed.
C21_TokenizeFailureAsClaimed ==
    [][ (HasUnterminatedQuote(arguments_str) /\ pc # "prompt") =>
            /\ session_history' = session_history
            /\ command_counter' = command_counter ]_vars

\* C21 amended: a line that fails tokenization is reported and not spawned,
\* but it is not discarded: it is appended to the session history before
\* the tokenization is tried, and the command counter goes up by one after
\* the failure was reported.
C21_TokenizeFailureRecordedAndCounted ==
    [][ /\ (pc = "dispatch" /\ HasUnterminatedQuote(arguments_str)) =>
              /\ session_history' = Append(session_history, arguments_str)
              /\ command_counter' = command_counter
        /\ (pc = "spawn" /\ HasUnterminatedQuote(arguments_str)) =>
              /\ session_history[Len(session_history)] = arguments_str
              /\ LastEv(trace') = Ev("report_error", "ValueError")
              /\ spawned' = spawned
              /\ pc' = "increment"
        /\ (pc = "increment" /\ HasUnterminatedQuote(arguments_str)) =>
              /\ command_counter' = command_counter + 1
              /\ session_history' = session_history
              /\ pc' = "prompt"
      ]_vars

\* The line 'a as the only line of the session so far: it is in the
\* history and it was counted, and nothing was spawned.
C21_Witness ==
    /\ pc = "prompt"
    /\ prompts = 1
    /\ session_history = << <<"'", "a">> >>
    /\ command_counter = 1
    /\ spawned = <<>>

\* The value the session gets for a key: the one in kwargs, or the
\* hardcoded default when kwargs has none.
PassedToSession(k) ==
    IF cli.kwargs[k] = "absent" THEN HardcodedDefault(k) ELSE cli.kwargs[k]

\* The value of the highest-priority layer that sets the key.
HighestLayer(k) ==
    IF cli.given[k] # "absent" THEN cli.given[k]
    ELSE IF cli.file_command[k] # "absent" THEN cli.file_command[k]
    ELSE IF cli.file_defaults[k] # "absent" THEN cli.file_defaults[k]
    ELSE HardcodedDefault(k)

\* C22: for every configuration key, the value passed to the session is
\* the one of the highest-priority layer that sets it, in the order
\* hardcoded defaults < file defaults < file block of the command < command
\* line; a key set in the file and not given on the command line keeps the
\* file's value.
C22_HighestLayerWins ==
    pc = "replize" => \A k \in CliKeys : PassedToSession(k) = HighestLayer(k)

\* C23: wherever a prompt is issued the command counter equals the length
\* of the session history, so that the count the prompt shows is the index
\* (from 0) the next recorded line receives.
C23_CounterIsHistoryLength ==
    [][ /\ pc = "prompt" => get_prompt.count = Len(session_history)
        /\ pc' = "prompt" => get_prompt'.count = Len(session_history')
        /\ session_history' # session_history =>
              /\ Len(session_history') = Len(session_history) + 1
              /\ Len(session_history') - 1 = get_prompt.count
      ]_vars

\* The third prompt of a session whose first two lines were both executed.
C23_Witness ==
    /\ pc = "prompt"
    /\ prompts = 2
    /\ get_prompt.count = 2
    /\ Len(session_history) = 2
    /\ Len(spawned) = 1

\* An entry the loop may record: not empty, not only whitespace, and its
\* first token neither an exit word nor a builtin name.
IsRecordable(e) ==
    /\ e # <<>>
    /\ ~IsWhitespaceOnly(e)
    /\ FirstToken(e) \notin cfg.exit_commands
    /\ ~IsBuiltinLine(e)

\* C24: no entry of the session history is empty or only whitespace, and
\* none has an exit word or a builtin name (help, ?, history, clear) as its
\* first token; so the replay of an entry with !n neither ends the session
\* nor triggers a builtin, it goes on to the hooks and the executor.
C24_HistoryEntriesRecordable ==
    [][ /\ \A k \in 1..Len(session_history') : IsRecordable(session_history'[k])
        /\ (pc = "dispatch" /\ IsValidReference(arguments_str, session_history)
              /\ FirstToken(arguments_str) \notin cfg.exit_commands) =>
              /\ pc' \in {"pre_hooks", "spawn"}
              /\ IsRecordable(arguments_str')
              /\ ended_by' = ""
              /\ \A k \in 1..Len(trace') :
                    (trace')[k].ev \notin {"print_help", "print_history", "clear",
                                          "report_invalid_ref"}
      ]_vars

\* Three entries recorded, the last two by replays of the first.
C24_Witness ==
    /\ Len(session_history) = 3
    /\ typed = RefLine(1)
    /\ pc = "spawn"
    /\ \A k \in 1..3 : session_history[k] = <<"-", "l">>

\* The events of a trace that report an error of the execution.
ErrorReports(t) ==
    SelectSeq(t, LAMBDA x : x.ev \in {"report_not_found", "report_error"})

\* C25: when the spawn of the child fails (executable not found, or any
\* other error of the spawn), no stdout or stderr handler and no post hook
\* is called for the line, although its pre hooks have all run; one error
\* is reported and the loop goes on to the next prompt.
C25_SpawnFailureSkipsHandlers ==
    [][ /\ (pc = "spawn" /\ pc' # "spawn" /\ process'.state # "running") =>
              /\ pc' = "increment"
              /\ HooksCalled(trace', "pre_hook") = cfg.pre_command_hooks
              /\ \A k \in 1..Len(trace') :
                    (trace')[k].ev \notin {"stdout_callback", "stderr_callback",
                                          "post_hook", "communicate"}
              /\ Len(ErrorReports(trace')) = 1
              /\ LastEv(trace') = ErrorReports(trace')[1]
              /\ exc' = ""
              /\ ended_by' = ""
        /\ (pc = "increment" /\ process.state = "none") =>
              /\ pc' \in {"increment", "prompt"}
              /\ Len(trace') <= Len(trace)
      ]_vars

\* Popen called for the line and raising PermissionError after both pre
\* hooks: one error reported, the counter about to be incremented.
C25_Witness ==
    /\ pc = "increment"
    /\ LastEv(trace) = Ev("report_error", "PermissionError")
    /\ HooksCalled(trace, "pre_hook") = <<"pre1", "pre2">>
    /\ Len(spawned) = 1
    /\ process = NoProcess
    /\ ~HasEv("post_hook")

\* C26: with validation on and the base command not found in PATH,
\* replize() reports it and returns before the loop: no prompt, no line
\* read, nothing spawned, the log file not opened, nothing raised; with
\* validation off PATH is not consulted and the loop starts whether the
\* base command exists or not (unless the log file cannot be opened).
C26_ValidationBeforeLoop ==
    [][ /\ (pc = "start" /\ cfg.validate_command
              /\ trace' # <<>> /\ (trace')[1] = Ev("which", "None")) =>
              /\ trace' = <<Ev("which", "None"), Ev("report_not_in_path", "")>>
              /\ pc' = "done"
              /\ exc' = ""
              /\ log_file_handle' = "None"
              /\ prompts' = 0
              /\ typed' = <<>>
              /\ spawned' = <<>>
        /\ (pc = "start" /\ pc' # "start" /\ ~cfg.validate_command) =>
              /\ \A k \in 1..Len(trace') :
                    (trace')[k].ev \notin {"which", "report_not_in_path"}
              /\ \/ pc' = "prompt"
                 \/ pc' = "done" /\ ended_by' = "log_open"
        /\ pc = "done" => UNCHANGED vars
      ]_vars

\* A session with a log file configured whose base command is not in PATH:
\* it is over with the report as its only output and the log never opened.
C26_Witness ==
    /\ pc = "done"
    /\ ended_by = "validate"
    /\ cfg.validate_command
    /\ cfg.log_file = "set"
    /\ log_file_handle = "None"
    /\ prompts = 0
    /\ spawned = <<>>

====
